---- MODULE Spec2Model ----
(***************************************************************************)
(* A model of classify.py (gazzola/FakeNilc): the command line, the        *)
(* dataset / classifier loops of main, the slice boundaries and the        *)
(* cross-validated predictions of predictAndEvaluate, and the report of    *)
(* printResults.                                                           *)
(***************************************************************************)
EXTENDS Integers, Sequences, FiniteSets, TLC

(***************************************************************************)
(* IEEE-754 binary64 arithmetic, as far as line 93 and lines 120-122 use   *)
(* it.  A positive double is [m, e] with value m * 2^e, m a natural of at  *)
(* most MantBits bits kept as a little-endian sequence of limbs.           *)
(***************************************************************************)
MantBits == 53

RECURSIVE BitLenSmall(_)
BitLenSmall(n) == IF n = 0 THEN 0 ELSE 1 + BitLenSmall(n \div 2)

\* limbs of 15 bits: the products of a limb and a number below Base stay below 2^31
Base == 2^15

LimbBits == BitLenSmall(Base) - 1

RECURSIVE Strip(_)
Strip(a) ==
    IF a = <<>> THEN <<>>
    ELSE IF a[Len(a)] = 0 THEN Strip(SubSeq(a, 1, Len(a) - 1))
    ELSE a

BitLen(a) ==
    IF a = <<>> THEN 0
    ELSE LimbBits * (Len(a) - 1) + BitLenSmall(a[Len(a)])

RECURSIVE ToInt(_)
ToInt(a) == IF a = <<>> THEN 0 ELSE Head(a) + Base * ToInt(Tail(a))

RECURSIVE FromInt(_)
FromInt(n) == IF n = 0 THEN <<>> ELSE <<n % Base>> \o FromInt(n \div Base)

RECURSIVE Pow2Big(_)
Pow2Big(k) == IF k < LimbBits THEN <<2^k>> ELSE <<0>> \o Pow2Big(k - LimbBits)

RECURSIVE MulCarry(_, _, _)
MulCarry(a, n, carry) ==
    IF a = <<>> THEN FromInt(carry)
    ELSE LET cur == Head(a) * n + carry
         IN  <<cur % Base>> \o MulCarry(Tail(a), n, cur \div Base)

MulSmall(a, n) == Strip(MulCarry(a, n, 0))

RECURSIVE DivRemRaw(_, _)
DivRemRaw(a, d) ==
    IF a = <<>> THEN [q |-> <<>>, r |-> 0]
    ELSE LET hi  == DivRemRaw(Tail(a), d)
             cur == hi.r * Base + Head(a)
         IN  [q |-> <<cur \div d>> \o hi.q, r |-> cur % d]

DivRem(a, d) == LET dr == DivRemRaw(a, d) IN [q |-> Strip(dr.q), r |-> dr.r]

RECURSIVE AddOne(_)
AddOne(a) ==
    IF a = <<>> THEN <<1>>
    ELSE IF Head(a) + 1 < Base THEN <<Head(a) + 1>> \o Tail(a)
    ELSE <<0>> \o AddOne(Tail(a))

IsOdd(a) == a # <<>> /\ Head(a) % 2 = 1

RECURSIVE ShiftRight(_, _)
ShiftRight(a, t) ==
    IF a = <<>> \/ t = 0 THEN a
    ELSE IF t >= LimbBits THEN ShiftRight(Tail(a), t - LimbBits)
    ELSE DivRem(a, 2^t).q

\* round to nearest, ties to even: the quotient q of a division by d with
\* remainder r, rounded on the dropped part r / d
RoundQuot(q, r, d) ==
    IF 2 * r > d \/ (2 * r = d /\ IsOdd(q)) THEN AddOne(q) ELSE q

\* the double nearest to p * 2^e, for p the exact product of a double's
\* mantissa by an integer below Base
Round(p, e) ==
    IF BitLen(p) <= MantBits THEN [m |-> p, e |-> e]
    ELSE LET t  == BitLen(p) - MantBits
             dr == DivRem(p, 2^t)
         IN  [m |-> RoundQuot(dr.q, dr.r, 2^t), e |-> e + t]

\* delta / div of numpy.linspace: the double nearest to 1 / div
FDivOne(div) ==
    LET k  == (MantBits - 1) + BitLenSmall(div)
        dr == DivRem(Pow2Big(k), div)
    IN  Round(RoundQuot(dr.q, dr.r, div), 0 - k)

\* the double product x * n, n a natural
FMulInt(x, n) == Round(MulSmall(x.m, n), x.e)

FOne == [m |-> <<1>>, e |-> 0]

RECURSIVE LowBitsZero(_, _)
LowBitsZero(a, t) ==
    IF a = <<>> \/ t = 0 THEN TRUE
    ELSE IF t >= LimbBits
         THEN Head(a) = 0 /\ LowBitsZero(Tail(a), t - LimbBits)
         ELSE Head(a) % (2^t) = 0

\* a conversion that rounds up instead of down
TruncUp(x) ==
    IF x.e >= 0 THEN ToInt(x.m) * 2^(x.e)
    ELSE ToInt(ShiftRight(x.m, 0 - x.e))
            + (IF LowBitsZero(x.m, 0 - x.e) THEN 0 ELSE 1)

\* astype(int): truncation toward zero
Trunc(x) ==
    IF x.e >= 0 THEN ToInt(x.m) * 2^(x.e) ELSE ToInt(ShiftRight(x.m, 0 - x.e))

\* numpy.linspace(0, 1, num)[i], 0-based, for num >= 2: i * step, the last
\* one set to the stop value
Linspace(num, i) ==
    IF i = num - 1 THEN FOne ELSE FMulInt(FDivOne(num - 1), i)

\* the boundaries of one step too few: np.linspace(0, 1, lc)
SlicesOffByOne(lc, n) ==
    IF lc < 2 THEN <<>>
    ELSE [i \in 1..(lc - 1) |-> Trunc(FMulInt(Linspace(lc, i), n))]

\* (np.linspace(0,1,lc+1) * n).astype(int)[1:]; defined for lc >= -1
Slices(lc, n) ==
    IF lc + 1 < 2 THEN <<>>
    ELSE [i \in 1..lc |-> Trunc(FMulInt(Linspace(lc + 1, i), n))]


(***************************************************************************)
(* Labels, classifier kinds and the command line.                          *)
(***************************************************************************)
Labels == {"REAL", "FAKE"}

\* the order sklearn gives the labels: sorted
LabelOrder == <<"FAKE", "REAL">>

\* cv=5 of the cross_val_predict call
Folds == 5

\* prepareArgParser: the accepted values of -c; "none" is the option left out
Choices == {"svc", "linearsvc", "naive_bayes", "randomforest", "all", "mlp"}

\* parseArguments, lines 52-65: the classifier list for a value of -c
SelectClassifiers(c) ==
    LET classifier == <<"LinearSVC", "MultinomialNB", "RandomForestClassifier">>
    IN  IF c = "linearsvc" THEN <<classifier[1]>>
        ELSE IF c = "naive_bayes" THEN <<classifier[2]>>
        ELSE IF c = "randomforest" THEN <<classifier[3]>>
        ELSE IF c = "mlp" THEN <<"MLPClassifier">>
        ELSE classifier

(***************************************************************************)
(* Sequences of labels.                                                    *)
(***************************************************************************)
Prefix(q, n) == SubSeq(q, 1, IF n < Len(q) THEN n ELSE Len(q))

Count(q, l) == Cardinality({i \in 1..Len(q) : q[i] = l})

LabelsOf(q) == {q[i] : i \in 1..Len(q)}

Other(l) == IF l = "REAL" THEN "FAKE" ELSE "REAL"

\* a split that only counts the samples
InsufficientDataLenOnly(q) == Len(q) < Folds

\* StratifiedKFold(5).split on the labels q of a slice: it refuses fewer
\* samples than folds, and labels none of whose classes has Folds members
InsufficientData(q) ==
    \/ Len(q) < Folds
    \/ \A l \in LabelsOf(q) : Count(q, l) < Folds

\* some training fold holds one class only: the slice has one class, or a
\* class with a single member (held out whole in one fold)
SingleClassFold(q) ==
    \/ Cardinality(LabelsOf(q)) < 2
    \/ \E l \in LabelsOf(q) : Count(q, l) = 1

\* fit on a fold of one class: LinearSVC refuses it, MultinomialNB and
\* RandomForestClassifier take it; MLPClassifier is left open
MayFail(kind, q) ==
    kind \in {"LinearSVC", "MLPClassifier"} /\ SingleClassFold(q)

MustFail(kind, q) == kind = "LinearSVC" /\ SingleClassFold(q)

\* The label sequences cross_val_predict is taken to return for a slice with
\* labels q: all right, or the first and the last record wrong; a classifier
\* only predicts labels it was trained on.
Predictions(q) ==
    LET ends == [i \in 1..Len(q) |->
                    IF i = 1 \/ i = Len(q) THEN Other(q[i]) ELSE q[i]]
    IN  {q} \cup (IF Cardinality(LabelsOf(q)) = 2 THEN {ends} ELSE {})

\* confusion_matrix(real, pred).ravel(): the counts by (true label,
\* predicted label) over the sorted labels that occur in either
ConfusionRavel(real, pred) ==
    LET labs == SelectSeq(LabelOrder,
                          LAMBDA l : l \in LabelsOf(real) \cup LabelsOf(pred))
        m    == Len(labs)
    IN  [k \in 1..(m * m) |->
            Cardinality({i \in 1..Len(real) :
                            /\ real[i] = labs[((k - 1) \div m) + 1]
                            /\ pred[i] = labs[((k - 1) % m) + 1]})]

\* accuracy_score(a, b) for sequences of one length, as <<right, total>>
AccuracyScore(a, b) ==
    <<Cardinality({i \in 1..Len(a) : a[i] = b[i]}), Len(a)>>

\* sizes rounded up instead of down
CurveSizesCeil(k, n) ==
    [i \in 1..k |-> TruncUp(FMulInt(Linspace(k + 1, i), n))]

\* printResults, lines 120-122: the dataset sizes of the learning curve
CurveSizes(k, n) ==
    [i \in 1..k |-> Trunc(FMulInt(Linspace(k + 1, i), n))]

\* a list that keeps the records predicted right as well
RECURSIVE MissedFromAny(_, _, _, _)
MissedFromAny(i, ids, real, pred) ==
    IF i > Len(real) THEN <<>>
    ELSE <<<<ids[i], pred[i]>>>> \o MissedFromAny(i + 1, ids, real, pred)

\* main, line 170: the missed records, by increasing index
RECURSIVE MissedFrom(_, _, _, _)
MissedFrom(i, ids, real, pred) ==
    IF i > Len(real) THEN <<>>
    ELSE (IF pred[i] # real[i] THEN <<<<ids[i], pred[i]>>>> ELSE <<>>)
            \o MissedFrom(i + 1, ids, real, pred)

(***************************************************************************)
(* The dataset files: a table has row keys 1..rows, a feature row per key  *)
(* and, unless the column is missing, a Tag per row.                       *)
(***************************************************************************)
Table(n, a, t) ==
    [name   |-> <<n, a>>,
     rows   |-> n,
     tags   |-> [i \in 1..n |-> IF i <= a THEN "REAL" ELSE "FAKE"],
     hasTag |-> t]

\* sklearn.utils.shuffle: one permutation for X, y and Id; the permutations
\* tried are the identity, the reversal and the rotation by one
Perms(n) ==
    { [i \in 1..n |-> i], [i \in 1..n |-> n + 1 - i],
      [i \in 1..n |-> (i % n) + 1] }

Permuted(q, perm) == [i \in 1..Len(q) |-> q[perm[i]]]

(***************************************************************************)
(* The state of a run of main.                                             *)
(***************************************************************************)
VARIABLES
    args,               \* the parsed command line (argparse's namespace)
    pc,                 \* where main is
    err,                \* the exception that ended the run, "" if none
    dataset_filenames,  \* parseArguments' results
    flags,
    classifiers,
    dsIdx,              \* position of the dataset loop
    df,                 \* the table read for the current dataset
    X, y, Ids,          \* getDatasetValues' results
    clfIdx,             \* position of the classifier loop
    s, sIdx, preds,     \* predictAndEvaluate: slices, loop position, local list
    predicts,           \* main's predicts
    output              \* what was printed to the output file, in order

vars == <<args, pc, err, dataset_filenames, flags, classifiers, dsIdx, df,
          X, y, Ids, clfIdx, s, sIdx, preds, predicts, output>>

NoTable == [name |-> <<0, 0>>, rows |-> 0, tags |-> <<>>, hasTag |-> FALSE]

\* bounds of the command lines and files tried
MaxFiles == 2

MaxRows == 7

MaxN == 30

MaxLc == 7

\* the files of the runs of Spec: Folds - 1 to MaxRows rows, in two halves
\* or with up to Folds records of the first class, and a table without the
\* Tag column
SmallTables ==
    UNION { {Table(n, n \div 2, TRUE),
             Table(n, IF n < Folds THEN n ELSE Folds, TRUE)} :
                n \in (Folds - 1)..MaxRows }
        \cup { Table(Folds, Folds, FALSE) }

\* the files of the runs of CurveSpec: every size up to MaxN, of one class,
\* in two halves or with Folds records of the first class, and a table
\* without the Tag column
BigTables ==
    UNION { {Table(n, n \div 2, TRUE), Table(n, n, TRUE)} : n \in 1..MaxN }
        \cup { Table(n, Folds, TRUE) : n \in (Folds + 1)..MaxN }
        \cup { Table(Folds, Folds, FALSE) }

FileLists(tables, k) ==
    UNION { [1..m -> tables] : m \in 1..k }

Start(a) ==
    /\ args = a
    /\ pc = "parse"
    /\ err = ""
    /\ dataset_filenames = <<>>
    /\ flags = [lc |-> 0]
    /\ classifiers = <<>>
    /\ dsIdx = 1
    /\ df = NoTable
    /\ X = <<>> /\ y = <<>> /\ Ids = <<>>
    /\ clfIdx = 1
    /\ s = <<>> /\ sIdx = 1 /\ preds = <<>>
    /\ predicts = <<>>
    /\ output = <<>>

\* up to MaxFiles files
Init ==
    \E c \in Choices \cup {"none"}, lc \in {-2, -1, 1, 2},
       fl \in FileLists(SmallTables, MaxFiles) :
        Start([classifier |-> c, learning_curve_steps |-> lc,
               dataset_filenames |-> fl])

\* one file, learning curves of up to MaxLc steps
CurveInit ==
    \E c \in Choices \cup {"none"}, lc \in (-2)..MaxLc, tb \in BigTables :
        Start([classifier |-> c, learning_curve_steps |-> lc,
               dataset_filenames |-> <<tb>>])

\* an exception that takes the written output with it
FailRollback(kind, out) ==
    /\ pc' = "failed"
    /\ err' = kind
    /\ output' = <<>>

\* an exception nothing catches: main ends, what was printed stays
Fail(kind, out) ==
    /\ pc' = "failed"
    /\ err' = kind
    /\ output' = out

(***************************************************************************)
(* The steps of main.                                                      *)
(***************************************************************************)
\* line 132: parseArguments
ParseArguments ==
    /\ pc = "parse"
    /\ dataset_filenames' = args.dataset_filenames
    /\ flags' = [lc |-> args.learning_curve_steps]
    /\ classifiers' = SelectClassifiers(args.classifier)
    /\ pc' = "datasets"
    /\ UNCHANGED <<args, err, dsIdx, df, X, y, Ids, clfIdx, s, sIdx, preds,
                   predicts, output>>

\* lines 141-146: the head of the dataset loop, the 'Dataset:' line and
\* read_csv
BeginDataset ==
    /\ pc = "datasets"
    /\ dsIdx <= Len(dataset_filenames)
    /\ output' = Append(output, [k |-> "Dataset",
                                 v |-> dataset_filenames[dsIdx].name])
    /\ df' = dataset_filenames[dsIdx]
    /\ pc' = "prepare"
    /\ UNCHANGED <<args, err, dataset_filenames, flags, classifiers, dsIdx,
                   X, y, Ids, clfIdx, s, sIdx, preds, predicts>>

\* line 173: the loop is over
Done ==
    /\ pc = "datasets"
    /\ dsIdx > Len(dataset_filenames)
    /\ pc' = "done"
    /\ UNCHANGED <<args, err, dataset_filenames, flags, classifiers, dsIdx, df,
                   X, y, Ids, clfIdx, s, sIdx, preds, predicts, output>>

\* lines 150-152: getDatasetValues (a KeyError without the Tag column,
\* else the shuffled X, y, Id), and predicts = []
GetDatasetValues ==
    /\ pc = "prepare"
    /\ \/ /\ ~df.hasTag
          /\ Fail("KeyError", output)
          /\ UNCHANGED <<X, y, Ids, predicts, clfIdx>>
       \/ /\ df.hasTag
          /\ \E perm \in Perms(df.rows) :
                /\ X' = Permuted([i \in 1..df.rows |-> <<i>>], perm)
                /\ y' = Permuted(df.tags, perm)
                /\ Ids' = Permuted([i \in 1..df.rows |-> i], perm)
          /\ predicts' = <<>>
          /\ clfIdx' = 1
          /\ pc' = "classifiers"
          /\ UNCHANGED <<err, output>>
    /\ UNCHANGED <<args, dataset_filenames, flags, classifiers, dsIdx, df,
                   s, sIdx, preds>>

\* lines 154-161 and 93-95: the next classifier, and predictAndEvaluate up
\* to its loop (np.linspace refuses a negative number of samples)
BeginEvaluate ==
    /\ pc = "classifiers"
    /\ clfIdx <= Len(classifiers)
    /\ \/ /\ flags.lc + 1 < 0
          /\ Fail("NegativeSamples", output)
          /\ UNCHANGED <<s, sIdx, preds>>
       \/ /\ flags.lc + 1 >= 0
          /\ s' = Slices(flags.lc, Len(y))
          /\ sIdx' = 1
          /\ preds' = <<>>
          /\ pc' = "slices"
          /\ UNCHANGED <<err, output>>
    /\ UNCHANGED <<args, dataset_filenames, flags, classifiers, dsIdx, df,
                   X, y, Ids, clfIdx, predicts>>

\* lines 96-98: one pass of the loop over s
CrossValPredict ==
    /\ pc = "slices"
    /\ sIdx <= Len(s)
    /\ LET ys == Prefix(y, s[sIdx])
       IN  \/ /\ InsufficientData(ys)
              /\ Fail("InsufficientData", output)
              /\ UNCHANGED <<sIdx, preds>>
           \/ /\ ~InsufficientData(ys)
              /\ MayFail(classifiers[clfIdx], ys)
              /\ Fail("ClassifierFailure", output)
              /\ UNCHANGED <<sIdx, preds>>
           \/ /\ ~InsufficientData(ys)
              /\ ~MustFail(classifiers[clfIdx], ys)
              /\ \E p \in Predictions(ys) : preds' = Append(preds, p)
              /\ sIdx' = sIdx + 1
              /\ UNCHANGED <<pc, err, output>>
    /\ UNCHANGED <<args, dataset_filenames, flags, classifiers, dsIdx, df,
                   X, y, Ids, clfIdx, s, predicts>>

\* line 100 and the assignment of line 161
ReturnPredicts ==
    /\ pc = "slices"
    /\ sIdx > Len(s)
    /\ predicts' = preds
    /\ pc' = "print"
    /\ UNCHANGED <<args, err, dataset_filenames, flags, classifiers, dsIdx, df,
                   X, y, Ids, clfIdx, s, sIdx, preds, output>>

\* lines 113-117: the confusion matrix as printed
MatrixLines(tn, fp, fn, tp) ==
    << [k |-> "ConfusionMatrix", v |-> <<>>],
       [k |-> "a = REAL", v |-> <<tp, fp>>],
       [k |-> "b = FAKE", v |-> <<fn, tn>>] >>

\* lines 164 and 103-126: printResults(clf, y, predicts), then del clf
PrintResults ==
    /\ pc = "print"
    /\ LET real == y
           out1 == Append(output, [k |-> "Classifier",
                                   v |-> <<classifiers[clfIdx]>>])
       IN  IF predicts = <<>>
           THEN Fail("IndexError", out1) /\ UNCHANGED clfIdx
           ELSE
           LET last == predicts[Len(predicts)]
               out2 == Append(out1, [k |-> "Report", v |-> <<Len(real)>>])
               cm   == ConfusionRavel(real, last)
               out3 == out2 \o MatrixLines(cm[1], cm[2], cm[3], cm[4])
               sz   == CurveSizes(Len(predicts), Len(real))
               out4 == out3 \o
                       << [k |-> "Learning curve",
                           v |-> [i \in 1..Len(predicts) |->
                                    AccuracyScore(Prefix(real, sz[i]),
                                                  predicts[i])]] >>
           IN  IF Len(last) # Len(real)
               THEN Fail("InconsistentLength", out1) /\ UNCHANGED clfIdx
               ELSE IF Len(cm) # 4
               THEN Fail("UnpackError", out2) /\ UNCHANGED clfIdx
               ELSE IF Len(predicts) <= 1
               THEN /\ output' = out3
                    /\ clfIdx' = clfIdx + 1
                    /\ pc' = "classifiers"
                    /\ UNCHANGED err
               ELSE IF \E i \in 1..Len(predicts) :
                            Len(Prefix(real, sz[i])) # Len(predicts[i])
               THEN Fail("InconsistentLength", out3) /\ UNCHANGED clfIdx
               ELSE /\ output' = out4
                    /\ clfIdx' = clfIdx + 1
                    /\ pc' = "classifiers"
                    /\ UNCHANGED err
    /\ UNCHANGED <<args, dataset_filenames, flags, classifiers, dsIdx, df,
                   X, y, Ids, s, sIdx, preds, predicts>>

\* the missed records before the separator
SeparatorLinesSwapped(ids, real, last) ==
    << [k |-> "Missed", v |-> MissedFrom(1, ids, real, last)],
       [k |-> "==============", v |-> <<>>] >>

\* lines 168-171: the separator, then the missed records
SeparatorLines(ids, real, last) ==
    << [k |-> "==============", v |-> <<>>],
       [k |-> "Missed", v |-> MissedFrom(1, ids, real, last)] >>

\* lines 168-171: after the last classifier, the separator and the missed
\* records of the last predictions
EndDataset ==
    /\ pc = "classifiers"
    /\ clfIdx > Len(classifiers)
    /\ LET out1 == Append(output, [k |-> "==============", v |-> <<>>])
       IN  IF predicts = <<>>
           THEN Fail("IndexError", out1) /\ UNCHANGED dsIdx
           ELSE /\ output' = output \o
                        SeparatorLines(Ids, y, predicts[Len(predicts)])
                /\ dsIdx' = dsIdx + 1
                /\ pc' = "datasets"
                /\ UNCHANGED err
    /\ UNCHANGED <<args, dataset_filenames, flags, classifiers, df,
                   X, y, Ids, clfIdx, s, sIdx, preds, predicts>>

Next ==
    \/ ParseArguments
    \/ BeginDataset
    \/ Done
    \/ GetDatasetValues
    \/ BeginEvaluate
    \/ CrossValPredict
    \/ ReturnPredicts
    \/ PrintResults
    \/ EndDataset

Spec == Init /\ [][Next]_vars

CurveSpec == CurveInit /\ [][Next]_vars

(***************************************************************************)
(* Vocabulary of the properties.                                           *)
(***************************************************************************)
ExactFloor(i, lc, n) == (i * n) \div lc

ExactCeil(i, lc, n) == (i * n + lc - 1) \div lc

LastLine(out) == out[Len(out)]

\* the slice of the labels that boundary j of s cuts
SliceLabels(j) == Prefix(y, s[j])

HasFullClass(q) == \E l \in Labels : Count(q, l) >= Folds

RECURSIVE Repeat(_, _)
Repeat(q, n) == IF n = 0 THEN <<>> ELSE q \o Repeat(q, n - 1)

Kinds(out) == [i \in 1..Len(out) |-> out[i].k]

\* the lines of output after its last 'Dataset:' line
RECURSIVE SinceDataset(_)
SinceDataset(out) ==
    IF out = <<>> \/ LastLine(out).k = "Dataset" THEN <<>>
    ELSE Append(SinceDataset(SubSeq(out, 1, Len(out) - 1)), LastLine(out))

ClassifierNames(out) ==
    LET cl == SelectSeq(out, LAMBDA ln : ln.k = "Classifier")
    IN  [i \in 1..Len(cl) |-> cl[i].v[1]]

\* the report of one classifier, by its lines
ReportKinds ==
    <<"Classifier", "Report", "ConfusionMatrix", "a = REAL", "b = FAKE">>
        \o (IF flags.lc > 1 THEN <<"Learning curve">> ELSE <<>>)

DatasetKinds ==
    <<"Dataset">> \o Repeat(ReportKinds, Len(classifiers))
        \o <<"==============", "Missed">>

(***************************************************************************)
(* C1                                                                      *)
(***************************************************************************)
\* C1, as stated: for every dataset size N >= 1 and step count lc >= 1
\* predictAndEvaluate returns (no slice is refused), and what it returns is
\* lc prediction sequences of strictly increasing lengths, the last of
\* length N.
C1_Original ==
    (Len(y) >= 1 /\ flags.lc >= 1) =>
        /\ ~(pc = "failed" /\ err = "InsufficientData")
        /\ pc = "print" =>
              /\ Len(predicts) = flags.lc
              /\ \A i \in 1..(Len(predicts) - 1) :
                     Len(predicts[i]) < Len(predicts[i + 1])
              /\ Len(predicts[Len(predicts)]) = Len(y)

\* C1, amended: for N >= 1 and lc >= 1, whenever predictAndEvaluate returns
\* it returns exactly lc prediction sequences of strictly increasing
\* lengths, none empty, the last of length N; and it returns only if
\* N >= 5 * lc (with fewer records the first slice is refused).
C1_Returned ==
    (pc = "print" /\ flags.lc >= 1) =>
        /\ Len(predicts) = flags.lc
        /\ Len(predicts[1]) > 0
        /\ \A i \in 1..(Len(predicts) - 1) :
               Len(predicts[i]) < Len(predicts[i + 1])
        /\ Len(predicts[Len(predicts)]) = Len(y)
        /\ Len(y) >= Folds * flags.lc

C1_Witness ==
    /\ pc = "print"
    /\ flags.lc >= 3
    /\ Len(predicts) = flags.lc

(***************************************************************************)
(* C2                                                                      *)
(***************************************************************************)
\* C2: with the step count -1 predictAndEvaluate returns exactly one
\* prediction sequence, of length N, so printResults and main have a last
\* prediction sequence.
C2_SingleSlice ==
    /\ (flags.lc = -1 /\ pc = "print") =>
            Len(predicts) = 1 /\ Len(predicts[1]) = Len(y)
    /\ flags.lc = -1 => ~(pc = "failed" /\ err = "IndexError")

(***************************************************************************)
(* C3                                                                      *)
(***************************************************************************)
\* C3, as stated: the i-th slice boundary, i = 1..lc, is ceil(i*N/lc).
C3_Original ==
    (pc = "slices" /\ flags.lc >= 1) =>
        /\ Len(s) = flags.lc
        /\ \A i \in 1..Len(s) : s[i] = ExactCeil(i, flags.lc, Len(y))

\* C3, amended: the i-th slice boundary is the double product
\* (i * (1/lc)) * N truncated: floor(i*N/lc) whenever i*N/lc is not whole,
\* and floor(i*N/lc) or one less when it is whole (the product may round to
\* just below it); the last boundary is N; N = 10, lc = 2 gives 5 and 10.
C3_Floor ==
    (pc = "slices" /\ flags.lc >= 1) =>
        /\ Len(s) = flags.lc
        /\ \A i \in 1..Len(s) :
              LET f == ExactFloor(i, flags.lc, Len(y))
              IN  /\ s[i] \in {f - 1, f}
                  /\ (i * Len(y)) % flags.lc # 0 => s[i] = f
        /\ s[Len(s)] = Len(y)
        /\ (Len(y) = 10 /\ flags.lc = 2) => s = <<5, 10>>

\* a run where a whole i*N/lc is cut to one less
C3_Witness ==
    /\ pc = "slices"
    /\ flags.lc >= 1
    /\ \E i \in 1..Len(s) :
          /\ (i * Len(y)) % flags.lc = 0
          /\ s[i] = ExactFloor(i, flags.lc, Len(y)) - 1

(***************************************************************************)
(* C4                                                                      *)
(***************************************************************************)
\* C4: when printResults gets more than one prediction sequence from
\* predictAndEvaluate, the prefix length it recomputes for sequence i is
\* the length of that sequence, no score is refused for unequal lengths,
\* and the learning curve printed has one accuracy per sequence, in order,
\* each against the true labels of the same prefix.
C4_PrefixAligned ==
    /\ ~(pc = "failed" /\ err = "InconsistentLength")
    /\ (pc = "print" /\ Len(predicts) > 1) =>
            \A i \in 1..Len(predicts) :
                CurveSizes(Len(predicts), Len(y))[i] = Len(predicts[i])
    /\ (pc = "classifiers" /\ clfIdx > 1 /\ Len(predicts) > 1) =>
            /\ LastLine(output).k = "Learning curve"
            /\ Len(LastLine(output).v) = Len(predicts)
            /\ \A i \in 1..Len(predicts) :
                  LET L == Len(predicts[i])
                  IN  LastLine(output).v[i] =
                        <<Cardinality({j \in 1..L : y[j] = predicts[i][j]}), L>>

C4_Witness ==
    /\ pc = "classifiers"
    /\ clfIdx > 1
    /\ Len(predicts) > 2
    /\ LastLine(output).k = "Learning curve"
    /\ \E i \in 1..Len(predicts) : LastLine(output).v[i][1] < Len(predicts[i])

(***************************************************************************)
(* C5                                                                      *)
(***************************************************************************)
\* C5: the missed list written for a dataset has, by increasing index, one
\* entry (id, predicted label) for exactly the indices where the last
\* prediction sequence of the last classifier differs from the true label;
\* it is empty when they agree everywhere.
C5_Missed ==
    (pc = "datasets" /\ dsIdx > 1) =>
        LET m    == LastLine(output).v
            last == predicts[Len(predicts)]
            bad  == {i \in 1..Len(y) : last[i] # y[i]}
            at(j) == CHOOSE i \in 1..Len(y) : Ids[i] = m[j][1]
            \* the report of the last classifier, printed before the list
            rowB == Len(output) - 2 - (IF Len(predicts) > 1 THEN 1 ELSE 0)
        IN  /\ LastLine(output).k = "Missed"
            /\ Len(m) = Cardinality(bad)
            /\ \A j \in 1..Len(m) :
                  /\ \E i \in bad : m[j] = <<Ids[i], last[i]>>
                  /\ j > 1 => at(j - 1) < at(j)
            /\ last = y => m = <<>>
            /\ output[rowB].k = "b = FAKE"
            /\ Len(m) = output[rowB].v[1] + output[rowB - 1].v[2]

C5_Witness ==
    /\ pc = "datasets"
    /\ dsIdx > 1
    /\ Len(classifiers) = 3
    /\ Len(predicts) = 2
    /\ Len(LastLine(output).v) = 2
    /\ Ids[1] # 1

(***************************************************************************)
(* C6                                                                      *)
(***************************************************************************)
KindOf(c) ==
    CASE c = "svc" -> "SVC"
      [] c = "linearsvc" -> "LinearSVC"
      [] c = "naive_bayes" -> "MultinomialNB"
      [] c = "randomforest" -> "RandomForestClassifier"
      [] c = "mlp" -> "MLPClassifier"

\* C6: one specific kind among the choices gives a list of exactly that
\* kind; 'all' or no choice gives every kind but the neural one; the neural
\* kind is in the list only when 'mlp' is asked for.
C6_Selection ==
    pc # "parse" =>
        LET c == args.classifier
        IN  /\ c \in Choices \ {"all"} => classifiers = <<KindOf(c)>>
            /\ c \in {"all", "none"} =>
                  /\ Len(classifiers) = 3
                  /\ {classifiers[i] : i \in 1..3} =
                        {"LinearSVC", "MultinomialNB", "RandomForestClassifier"}
            /\ (\E i \in 1..Len(classifiers) : classifiers[i] = "MLPClassifier")
                  <=> c = "mlp"

(***************************************************************************)
(* C7                                                                      *)
(***************************************************************************)
C7_Step ==
    \* the shuffle: in the one step out of "prepare", before any report of
    \* the dataset; X, y and Ids stay as they are in every other step
    /\ <<X, y, Ids>>' # <<X, y, Ids>> =>
            /\ pc = "prepare" /\ pc' = "classifiers"
            /\ clfIdx' = 1
            /\ LastLine(output').k = "Dataset"
    \* a dataset starts after the missed list of the one before
    /\ pc' = "prepare" =>
            /\ pc = "datasets"
            /\ dsIdx = 1 \/ LastLine(output).k = "Missed"
            /\ output' = Append(output,
                    [k |-> "Dataset", v |-> dataset_filenames[dsIdx].name])
            /\ Len(SelectSeq(output', LAMBDA ln : ln.k = "Dataset")) = dsIdx
    \* the reports of a dataset come in the order of the classifiers
    /\ (pc = "print" /\ pc' = "classifiers") =>
            /\ ClassifierNames(SinceDataset(output)) =
                    SubSeq(classifiers, 1, clfIdx - 1)
            /\ Kinds(output') = Kinds(output) \o ReportKinds
            /\ output'[Len(output) + 1].v = <<classifiers[clfIdx]>>
            /\ SubSeq(output', 1, Len(output)) = output
    \* the separator and the missed list come once, after every report
    /\ output' # output /\ pc = "classifiers" =>
            /\ ClassifierNames(SinceDataset(output)) = classifiers
            /\ Kinds(output') = Kinds(output) \o <<"==============", "Missed">>
            /\ SubSeq(output', 1, Len(output)) = output
            /\ pc' = "datasets" /\ dsIdx' = dsIdx + 1
    \* the whole output of a run that ends
    /\ pc' = "done" =>
            /\ Kinds(output') = Repeat(DatasetKinds, Len(dataset_filenames))
            /\ ClassifierNames(output') =
                    Repeat(classifiers, Len(dataset_filenames))

\* C7: main works dataset by dataset and, within a dataset, classifier by
\* classifier: one shuffle per dataset, before its first classifier; every
\* classifier on the same X, y, Ids, its report written in classifier order;
\* then the separator and the missed list, once; then the next dataset.
C7_DatasetMajor == [][C7_Step]_vars

C7_Witness ==
    /\ pc = "done"
    /\ Len(dataset_filenames) = 2
    /\ Len(classifiers) = 3
    /\ Ids # <<>> /\ Ids[1] # 1

(***************************************************************************)
(* C8                                                                      *)
(***************************************************************************)
\* C8, as stated: a slice is refused for insufficient data if and only if
\* it has fewer records than folds.
C8_Original ==
    /\ (pc = "failed" /\ err = "InsufficientData") =>
            Len(SliceLabels(sIdx)) < Folds
    /\ pc = "slices" =>
            \A j \in 1..(sIdx - 1) : Len(SliceLabels(j)) >= Folds

\* C8, amended: a slice is refused for insufficient data if and only if no
\* class has as many records in it as there are folds; so every slice
\* shorter than the fold count is refused (a 4-record dataset fails), and a
\* slice of 5 or more records is refused too when neither class reaches 5.
C8_Stratified ==
    /\ (pc = "failed" /\ err = "InsufficientData") =>
            ~HasFullClass(SliceLabels(sIdx))
    /\ pc = "slices" =>
            \A j \in 1..(sIdx - 1) :
                HasFullClass(SliceLabels(j)) /\ Len(SliceLabels(j)) >= Folds
    /\ (pc = "slices" /\ sIdx <= Len(s) /\ Len(SliceLabels(sIdx)) < Folds) =>
            ~HasFullClass(SliceLabels(sIdx))
    /\ (pc = "print" /\ flags.lc >= 1) => Len(y) >= Folds

\* a slice of five records or more, refused
C8_Witness ==
    /\ pc = "failed"
    /\ err = "InsufficientData"
    /\ Len(SliceLabels(sIdx)) >= Folds

(***************************************************************************)
(* C9                                                                      *)
(***************************************************************************)
\* C9: printResults always prints the confusion matrix of the last
\* prediction sequence against the true labels: first row (tp, fp) as
\* 'a = REAL', second row (fn, tn) as 'b = FAKE', REAL the positive class,
\* the four counts summing to N.
C9_Matrix ==
    /\ ~(pc = "failed" /\ err = "UnpackError")
    /\ (pc = "classifiers" /\ clfIdx > 1) =>
            LET last == predicts[Len(predicts)]
                n(r, p) == Cardinality({i \in 1..Len(y) :
                                            y[i] = r /\ last[i] = p})
                rowA == Len(output) - 1 - (IF Len(predicts) > 1 THEN 1 ELSE 0)
            IN  /\ output[rowA].k = "a = REAL"
                /\ output[rowA].v = <<n("REAL", "REAL"), n("FAKE", "REAL")>>
                /\ output[rowA + 1].k = "b = FAKE"
                /\ output[rowA + 1].v = <<n("REAL", "FAKE"), n("FAKE", "FAKE")>>
                /\ output[rowA].v[1] + output[rowA].v[2]
                     + output[rowA + 1].v[1] + output[rowA + 1].v[2] = Len(y)

(***************************************************************************)
(* C10                                                                     *)
(***************************************************************************)
C10_Step ==
    \* a table without the Tag column fails in getDatasetValues
    /\ (pc = "prepare" /\ ~df.hasTag) => (pc' = "failed" /\ err' = "KeyError")
    \* before any prediction or report of that dataset; what was written,
    \* the 'Dataset:' line last, stays
    /\ (pc' = "failed" /\ err' = "KeyError") =>
            /\ pc = "prepare" /\ ~df.hasTag
            /\ output' = output
            /\ LastLine(output) =
                    [k |-> "Dataset", v |-> dataset_filenames[dsIdx].name]
            /\ UNCHANGED <<X, y, Ids, s, preds, predicts, clfIdx, dsIdx>>
    \* main catches nothing: no step follows a failure
    /\ pc # "failed"

\* C10: a table without the 'Tag' column makes the run fail in
\* getDatasetValues, before any prediction or report for that dataset; the
\* failure ends the run, and the output already written remains.
C10_MissingTag == [][C10_Step]_vars

C10_Witness ==
    /\ pc = "failed"
    /\ err = "KeyError"
    /\ dsIdx = 2
    /\ \E i \in 1..Len(output) : output[i].k = "Missed"

====
